---- MODULE Spec2Model ----
(***************************************************************************)
(* A model of the link shortener's request handlers (src/src/routes.rs)    *)
(* and of its error reporter (src/src/utils.rs).                           *)
(*                                                                         *)
(* Every request is a task of its own.  A handler runs from its start to   *)
(* its first datastore call, and from the answer of a datastore call to    *)
(* the next call or to the response; the datastore runs one statement      *)
(* atomically.  Each call is awaited under tokio::time::timeout, so it     *)
(* ends in one of three ways: the statement ran and its result came back,  *)
(* the backend reported an error, or the deadline fired.  A fired deadline *)
(* only ends the wait: a write that was abandoned that way is kept in      *)
(* `abandoned` and the datastore may still run it later.                   *)
(***************************************************************************)
EXTENDS Integers, Sequences, FiniteSets, Bags, TLC

(***************************************************************************)
(* Bounds of the model.                                                    *)
(***************************************************************************)
\* Requests the service accepts in one run.
MaxAccepted == 3
\* Requests in flight at the same time.
MaxRequests == 2

(***************************************************************************)
(* Text.  A text that the code takes apart is a tuple of one-character     *)
(* strings; a text that the code only stores and compares is a string.     *)
(***************************************************************************)
RECURSIVE Join(_)
Join(chars) ==
    IF chars = <<>> THEN "" ELSE Head(chars) \o Join(Tail(chars))

UpperCase == <<"A","B","C","D","E","F","G","H","I","J","K","L","M",
               "N","O","P","Q","R","S","T","U","V","W","X","Y","Z">>
LowerCase == <<"a","b","c","d","e","f","g","h","i","j","k","l","m",
               "n","o","p","q","r","s","t","u","v","w","x","y","z">>
Digits == <<"0","1","2","3","4","5","6","7","8","9">>

Range(seq) == { seq[i] : i \in DOMAIN seq }

IsAlpha(c) == c \in Range(UpperCase) \cup Range(LowerCase)

to_ascii_lowercase(c) ==
    IF c \in Range(UpperCase)
    THEN LowerCase[CHOOSE i \in DOMAIN UpperCase : UpperCase[i] = c]
    ELSE c

(***************************************************************************)
(* generate_id: a number of 0..u32::MAX (the upper end excluded), its      *)
(* decimal text, and the URL-safe unpadded base64 of that text.            *)
(***************************************************************************)
\* TLC's integers are 32-bit signed, so an unsigned 32-bit number is held as
\* two limbs in base 100000: its value is hi * 100000 + lo.

U32(hi, lo) == [ hi |-> hi, lo |-> lo ]

\* u32::MAX = 4294967295.
U32_MAX == U32(42949, 67295)

LessThan(a, b) == a.hi < b.hi \/ (a.hi = b.hi /\ a.lo < b.lo)

\* The values the random generator gives in the model of the whole service:
\* of the least and the two greatest of the type, those it can give.
RandomSamples == { U32(0, 0), U32(42949, 67294), U32_MAX }

\* The values of the type that the model knows: one of each number of
\* decimal digits from 1 to 10, and the two greatest of the type.
U32Samples ==
    { U32(0, 0), U32(0, 10), U32(0, 999), U32(0, 1000), U32(0, 12345),
      U32(1, 5), U32(99, 99999), U32(100, 0), U32(9999, 99999),
      U32(10000, 0) } \cup RandomSamples

\* rand's gen_range(low..high): a half-open range.
gen_range(low, high) ==
    { n \in U32Samples : ~LessThan(n, low) /\ LessThan(n, high) }

\* The decimal text of a limb, as bytes, without leading zeros.
RECURSIVE Decimal(_)
Decimal(n) ==
    IF n < 10 THEN << 48 + n >>
    ELSE Append(Decimal(n \div 10), 48 + (n % 10))

\* The decimal text of a low limb below a high one: five digits.
Decimal5(n) ==
    [ i \in 1..5 |-> 48 + ((n \div (10 ^ (5 - i))) % 10) ]

\* u32::to_string, as the bytes of the text.
to_string(n) ==
    IF n.hi = 0 THEN Decimal(n.lo) ELSE Decimal(n.hi) \o Decimal5(n.lo)

\* The alphabet of base64's URL_SAFE engine.
URL_SAFE == UpperCase \o LowerCase \o Digits \o << "-", "_" >>

\* The 6-bit groups of a byte string, the last group filled with zero bits
\* and no padding added (URL_SAFE_NO_PAD).
RECURSIVE Sextets(_)
Sextets(bytes) ==
    IF Len(bytes) = 0 THEN << >>
    ELSE IF Len(bytes) = 1 THEN
        << bytes[1] \div 4, (bytes[1] % 4) * 16 >>
    ELSE IF Len(bytes) = 2 THEN
        << bytes[1] \div 4,
           (bytes[1] % 4) * 16 + bytes[2] \div 16,
           (bytes[2] % 16) * 4 >>
    ELSE
        << bytes[1] \div 4,
           (bytes[1] % 4) * 16 + bytes[2] \div 16,
           (bytes[2] % 16) * 4 + bytes[3] \div 64,
           bytes[3] % 64 >>
        \o Sextets(SubSeq(bytes, 4, Len(bytes)))

\* encode as it would be with the URL_SAFE engine, which pads the text with
\* '=' to a multiple of four characters.
encode_padded(bytes) ==
    LET s == Sextets(bytes)
        padding == [ i \in 1..((4 - (Len(s) % 4)) % 4) |-> "=" ]
    IN  Join([ i \in DOMAIN s |-> URL_SAFE[s[i] + 1] ] \o padding)

encode(bytes) ==
    LET s == Sextets(bytes)
    IN  Join([ i \in DOMAIN s |-> URL_SAFE[s[i] + 1] ])

random_numbers == gen_range(U32(0, 0), U32_MAX) \cap RandomSamples

generate_id(random_number) == encode(to_string(random_number))

(***************************************************************************)
(* Url::parse(..).to_string() on the request's targetUrl.  The inputs of   *)
(* the model are texts over letters, ':', '/', '.' and ' ' (no user info,  *)
(* port, query, fragment, escapes or dot segments), and there is no base   *)
(* URL.                                                                    *)
(***************************************************************************)
\* Leading and trailing spaces are dropped before anything else.
RECURSIVE TrimStart(_)
TrimStart(s) ==
    IF s # <<>> /\ Head(s) = " " THEN TrimStart(Tail(s)) ELSE s

RECURSIVE TrimEnd(_)
TrimEnd(s) ==
    IF s # <<>> /\ s[Len(s)] = " " THEN TrimEnd(SubSeq(s, 1, Len(s) - 1)) ELSE s

IsSchemeChar(c) ==
    IsAlpha(c) \/ c \in Range(Digits) \cup { "+", "-", "." }

\* The place of the ':' that ends the scheme, 0 when the text has no scheme.
SchemeEnd(s) ==
    IF s = <<>> \/ ~IsAlpha(s[1]) THEN 0
    ELSE IF \E i \in DOMAIN s : s[i] = ":" THEN
        LET colon == CHOOSE i \in DOMAIN s :
                        s[i] = ":" /\ \A j \in 1..(i - 1) : s[j] # ":"
        IN  IF \A j \in 1..(colon - 1) : IsSchemeChar(s[j]) THEN colon ELSE 0
    ELSE 0

SpecialSchemes == { "http", "https", "ws", "wss", "ftp" }

RECURSIVE SkipSlashes(_)
SkipSlashes(s) ==
    IF s # <<>> /\ Head(s) = "/" THEN SkipSlashes(Tail(s)) ELSE s

\* The length of the host: the text up to the first '/'.
HostLen(s) ==
    IF \E i \in DOMAIN s : s[i] = "/"
    THEN (CHOOSE i \in DOMAIN s : s[i] = "/" /\ \A j \in 1..(i - 1) : s[j] # "/") - 1
    ELSE Len(s)

ParseError == [ ok |-> FALSE, url |-> "" ]

Url_parse(target_url) ==
    LET input     == TrimEnd(TrimStart(target_url))
        colon     == SchemeEnd(input)
        scheme    == Join([ i \in 1..(colon - 1) |-> to_ascii_lowercase(input[i]) ])
        rest      == SubSeq(input, colon + 1, Len(input))
        authority == SkipSlashes(rest)
        hostLen   == HostLen(authority)
        host      == Join([ i \in 1..hostLen |-> to_ascii_lowercase(authority[i]) ])
        path      == SubSeq(authority, hostLen + 1, Len(authority))
    IN  IF colon = 0 THEN ParseError                 \* RelativeUrlWithoutBase
        ELSE IF scheme \in SpecialSchemes THEN
            IF hostLen = 0 THEN ParseError           \* EmptyHost
            ELSE [ ok  |-> TRUE,
                   url |-> scheme \o "://" \o host
                           \o (IF path = <<>> THEN "/" ELSE Join(path)) ]
        ELSE [ ok |-> TRUE, url |-> scheme \o ":" \o Join(rest) ]

(***************************************************************************)
(* The inputs of the model.                                                *)
(***************************************************************************)
Chars_http_upper == << "H","T","T","P",":","/","/","A",".","i","o" >>
Chars_https_path == << "h","t","t","p","s",":","/","/","a",".","i","o","/","b" >>
Chars_not_a_url  == << "n","o","t"," ","a"," ","u","r","l" >>
Chars_no_host    == << "h","t","t","p","s",":","/","/" >>

\* The targetUrl texts a create or an update request may carry.
TargetUrls ==
    { Chars_http_upper, Chars_https_path, Chars_not_a_url, Chars_no_host }

\* The ids a path may name: those generate_id can return, so that a path can
\* name a link that exists, one that does not exist yet and one that never will.
PathIds == { generate_id(n) : n \in random_numbers }

\* Option<T>: no value or one.
None == << >>
Some(v) == << v >>

\* A header value: its bytes are visible ASCII (to_str succeeds) or not.
HeaderValue(visible, text) == [ visible |-> visible, text |-> text ]

\* The header maps a redirect request may carry.
HeaderMaps ==
    { [ referer |-> None, user_agent |-> Some(HeaderValue(TRUE, "curl")) ],
      [ referer |-> Some(HeaderValue(TRUE, "news")),
        user_agent |-> Some(HeaderValue(FALSE, "")) ] }

(***************************************************************************)
(* Values of the program.                                                  *)
(***************************************************************************)
\* struct Link.
Link(id, target_url) == [ id |-> id, target_url |-> target_url ]

\* A row of link_statistics.
ClickEvent(link_id, referer, user_agent) ==
    [ link_id |-> link_id, referer |-> referer, user_agent |-> user_agent ]

\* struct CountedLinkStatistic.
CountedLinkStatistic(amount, referer, user_agent) ==
    [ amount |-> amount, referer |-> referer, user_agent |-> user_agent ]

\* What an awaited datastore call gives back: Ok(rows), Ok(Err(err)) or
\* Err(Elapsed).
Ok(rows) == [ kind |-> "Ok", err |-> "", rows |-> rows ]
Err(err) == [ kind |-> "Err", err |-> err, rows |-> << >> ]
Elapsed  == [ kind |-> "Elapsed", err |-> "Elapsed", rows |-> << >> ]
Pending  == [ kind |-> "Pending", err |-> "", rows |-> << >> ]

\* The Display text of an error.
Display(err) ==
    CASE err = "Elapsed"         -> "deadline has elapsed"
      [] err = "RowNotFound"     ->
           "no rows returned by a query that expected to return at least one row"
      [] err = "UniqueViolation" ->
           "error returned from database: duplicate key value violates unique constraint"
      [] OTHER                   -> "error communicating with database"

\* A response: a status with a text body, a JSON Link, a JSON list of
\* statistics, or an empty body under Location and Cache-Control headers.
Response(status, kind, text, link, statistics, location, cache_control) ==
    [ status |-> status, kind |-> kind, text |-> text, link |-> link,
      statistics |-> statistics, location |-> location,
      cache_control |-> cache_control ]

NoLink == Link("", "")
NoResponse == Response(0, "none", "", NoLink, << >>, "", "")
TextResponse(status, text) == Response(status, "text", text, NoLink, << >>, "", "")
JsonLink(link) == Response(200, "link", "", link, << >>, "", "")
JsonStatistics(statistics) ==
    Response(200, "statistics", "", NoLink, statistics, "", "")
EmptyResponse(status, location, cache_control) ==
    Response(status, "empty", "", NoLink, << >>, location, cache_control)

DEFAULT_CACHE_CONTROL_HEADER_VALUE ==
    "public, max-age=300, s-maxage=300, stale-while-revalidate=300, stale-if-error=300"

\* utils.rs, line 12: counter!("internal_error", &labels) has the recorder
\* register the counter of this name and these labels, at zero when it is
\* new, and gives its handle.  The statement ends there: the handle is
\* dropped and nothing is added to the counter.
counter(registry, name, labels) ==
    IF << name, labels >> \in DOMAIN registry THEN registry
    ELSE registry @@ (<< name, labels >> :> 0)

\* utils.rs, internal_error, lines 10-12: what it does to the recorder.
internal_error_counter(registry, err) ==
    counter(registry, "internal_error", << << "error", Display(err) >> >>)

\* .map_err(internal_error)? on both layers of an awaited result: the error,
\* if there is one, is passed to internal_error.
map_err(registry, result) ==
    IF result.kind = "Ok" THEN registry
    ELSE internal_error_counter(registry, result.err)

\* utils.rs, internal_error: the error's text under status 500.
internal_error(err) == TextResponse(500, Display(err))

(***************************************************************************)
(* The datastore's statements.  Each takes the table and gives the table   *)
(* after it and the rows (or the error) it returns.                        *)
(***************************************************************************)
\* The rows of a set in some order.
RECURSIVE SetToSeq(_)
SetToSeq(S) ==
    IF S = {} THEN << >>
    ELSE LET e == CHOOSE e \in S : TRUE IN << e >> \o SetToSeq(S \ { e })

\* links(id primary key, target_url): a row with this id is in the table.
links_pkey(table, id) == \E l \in table : l.id = id

\* insert_link as it would be with ON CONFLICT (id) DO UPDATE.
insert_link_upserting(table, id, url) ==
    [ table |-> { l \in table : l.id # id } \cup { Link(id, url) },
      result |-> Ok(<< Link(id, url) >>) ]

\* INSERT INTO links (id, target_url) VALUES ($1, $2) RETURNING id, target_url
insert_link(table, id, url) ==
    IF links_pkey(table, id)
    THEN [ table |-> table, result |-> Err("UniqueViolation") ]
    ELSE [ table |-> table \cup { Link(id, url) },
           result |-> Ok(<< Link(id, url) >>) ]

\* select_link as it would be without the where clause.
select_link_of_any(table, id) ==
    [ table |-> table, result |-> Ok(SetToSeq(table)) ]

\* SELECT id, target_url FROM links WHERE id = $1
select_link(table, id) ==
    [ table |-> table,
      result |-> Ok(SetToSeq({ l \in table : l.id = id })) ]

\* update_links as it would be with the final select reading links instead
\* of updated_link: it sees the rows as they were before the update.
update_links_reading_links(table, url, id) ==
    [ table |-> { IF l.id = id THEN Link(l.id, url) ELSE l : l \in table },
      result |-> Ok(SetToSeq({ l \in table : l.id = id })) ]

\* update_links as it would be as an upsert.
update_links_upserting(table, url, id) ==
    [ table |-> { l \in table : l.id # id } \cup { Link(id, url) },
      result |-> Ok(<< Link(id, url) >>) ]

\* update_links as it would be without the where clause.
update_links_everywhere(table, url, id) ==
    [ table |-> { Link(l.id, url) : l \in table },
      result |-> Ok(SetToSeq({ Link(l.id, url) : l \in table })) ]

\* update links set target_url = $1 where id = $2 returning id, target_url
update_links(table, url, id) ==
    [ table |-> { IF l.id = id THEN Link(l.id, url) ELSE l : l \in table },
      result |-> Ok(SetToSeq({ Link(l.id, url) : l \in { k \in table : k.id = id } })) ]

\* insert_statistic as it would be with the two headers bound in the other
\* order.
insert_statistic_swapped(table, link_id, referer, user_agent) ==
    [ table |-> Append(table, ClickEvent(link_id, user_agent, referer)),
      result |-> Ok(<< >>) ]

\* insert into link_statistics(link_id, referer, user_agent) values($1, $2, $3)
insert_statistic(table, link_id, referer, user_agent) ==
    [ table |-> Append(table, ClickEvent(link_id, referer, user_agent)),
      result |-> Ok(<< >>) ]

\* group by link_id, referer, user_agent with count(*): the groups in the
\* order of their first row (SQL leaves the order open), NULLs in one group.
RECURSIVE group_by(_)
group_by(rows) ==
    IF rows = << >> THEN << >>
    ELSE LET before == group_by(SubSeq(rows, 1, Len(rows) - 1))
             row    == rows[Len(rows)]
             same(g) == /\ g.link_id = row.link_id
                        /\ g.referer = row.referer
                        /\ g.user_agent = row.user_agent
         IN  IF \E i \in DOMAIN before : same(before[i])
             THEN [ i \in DOMAIN before |->
                      IF same(before[i])
                      THEN [ before[i] EXCEPT !.amount = @ + 1 ]
                      ELSE before[i] ]
             ELSE Append(before, [ link_id |-> row.link_id, amount |-> 1,
                                   referer |-> row.referer,
                                   user_agent |-> row.user_agent ])

\* select_statistics as it would be without the having clause.
select_statistics_of_all(table, link_id) ==
    LET groups == group_by(table)
    IN  [ table |-> table,
          result |-> Ok([ i \in DOMAIN groups |->
                            CountedLinkStatistic(groups[i].amount,
                                                 groups[i].referer,
                                                 groups[i].user_agent) ]) ]

\* select count(*) as amount, referer, user_agent from link_statistics
\* group by link_id, referer, user_agent having link_id = $1
select_statistics(table, link_id) ==
    LET groups == SelectSeq(group_by(table), LAMBDA g : g.link_id = link_id)
    IN  [ table |-> table,
          result |-> Ok([ i \in DOMAIN groups |->
                            CountedLinkStatistic(groups[i].amount,
                                                 groups[i].referer,
                                                 groups[i].user_agent) ]) ]

\* sqlx's fetch_one: the first row, RowNotFound when there is none.
fetch_one(result) ==
    IF result.kind = "Ok" /\ result.rows = << >> THEN Err("RowNotFound")
    ELSE IF result.kind = "Ok" THEN Ok(<< result.rows[1] >>)
    ELSE result

(***************************************************************************)
(* The state: the two tables, the writes whose caller gave up, the         *)
(* requests in flight, each with its handler's local variables, the number *)
(* of requests accepted so far, and the counters of the metrics recorder.  *)
(* Tasks have no names: the requests in flight are a bag, so that two      *)
(* requests alike in everything are two.                                   *)
(***************************************************************************)
VARIABLES links, link_statistics, abandoned, requests, accepted, written,
          metrics

vars ==
    << links, link_statistics, abandoned, requests, accepted, written, metrics >>

\* `written` is a history variable, read by no step: for each id, the write
\* that last took effect on the link of that id.  It is "none" while there is
\* no such link, "earlier" for a link an earlier run left, "abandoned" after a
\* write whose caller had given up, and else the create or the update that
\* was answered, with the targetUrl it carried and, for an update, how many
\* times in a row that same update has run.
Write(by, target_url, times) ==
    [ by |-> by, target_url |-> target_url, times |-> times ]

Record(id, write) == written' = [ written EXCEPT ![id] = write ]

\* How an awaited call ended, without its rows.
Outcome(result) == [ kind |-> result.kind, err |-> result.err ]

\* The local variables of a handler before it has set any.
Idle ==
    [ handler |-> "none", pc |-> "idle", link_id |-> "", target_url |-> << >>,
      url |-> "", result |-> Outcome(Pending), link |-> None,
      referer_header |-> None, user_agent_header |-> None,
      saved_statistic |-> Outcome(Pending), response |-> NoResponse ]

Accepted(handler, pc) == [ Idle EXCEPT !.handler = handler, !.pc = pc ]

Responded(request, response) ==
    [ request EXCEPT !.pc = "responded", !.response = response ]

(***************************************************************************)
(* create_link                                                             *)
(***************************************************************************)
\* Url::parse on each targetUrl text of the model, worked out once.
Parsed == [ target_url \in TargetUrls |-> Url_parse(target_url) ]

\* create_link_start as it would be with the request's text bound to the
\* insert instead of the parsed URL's.
create_link_start_raw(target_url, random_number) ==
    LET parsed == Parsed[target_url]
        request == [ Accepted("create_link", "insert_link")
                       EXCEPT !.target_url = target_url ]
    IN  IF ~parsed.ok
        THEN Responded(request, TextResponse(409, "url malformed"))
        ELSE [ request EXCEPT !.url = Join(target_url),
                              !.link_id = generate_id(random_number) ]

\* Lines 76-100: parse, 409 on a malformed URL, else draw the id and send
\* the insert.
create_link_start(target_url, random_number) ==
    LET parsed == Parsed[target_url]
        request == [ Accepted("create_link", "insert_link")
                       EXCEPT !.target_url = target_url ]
    IN  IF ~parsed.ok
        THEN Responded(request, TextResponse(409, "url malformed"))
        ELSE [ request EXCEPT !.url = parsed.url,
                              !.link_id = generate_id(random_number) ]

\* Lines 101-107: both error layers go through internal_error, the row is
\* the body.
create_link_finish(request, result) ==
    Responded([ request EXCEPT !.result = Outcome(result) ],
              IF result.kind = "Ok" THEN JsonLink(result.rows[1])
              ELSE internal_error(result.err))

(***************************************************************************)
(* redirect                                                                *)
(***************************************************************************)
\* Lines 115-124: send the lookup.
redirect_start(requested_link) ==
    [ Accepted("redirect", "select_link") EXCEPT !.link_id = requested_link ]

\* Lines 139-145: an absent header is None, a header that is not visible
\* ASCII is the empty text.
header_text(header) ==
    IF header = None THEN None
    ELSE Some(IF header[1].visible THEN header[1].text ELSE "")

\* redirect_resolved as it would be with both error layers dropped by ok()
\* before the Option is looked at: every failure reads as no row.
redirect_resolved_flattening(request, result, headers) ==
    LET awaited == [ request EXCEPT !.result = Outcome(result) ]
    IN  IF result.kind # "Ok" \/ result.rows = << >>
        THEN Responded(awaited, TextResponse(404, "Not Found"))
        ELSE [ awaited EXCEPT !.pc = "insert_statistic",
                              !.link = Some(result.rows[1]),
                              !.referer_header = header_text(headers.referer),
                              !.user_agent_header = header_text(headers.user_agent) ]

\* redirect_resolved as it would be with the insert of the click spawned as a
\* task of its own: the 307 is built as soon as the link is read.
redirect_resolved_detached(request, result, headers) ==
    LET awaited == [ request EXCEPT !.result = Outcome(result) ]
    IN  IF result.kind # "Ok" THEN Responded(awaited, internal_error(result.err))
        ELSE IF result.rows = << >>
        THEN Responded(awaited, TextResponse(404, "Not Found"))
        ELSE Responded([ awaited EXCEPT
                           !.link = Some(result.rows[1]),
                           !.referer_header = header_text(headers.referer),
                           !.user_agent_header = header_text(headers.user_agent) ],
                       EmptyResponse(307, result.rows[1].target_url,
                                     DEFAULT_CACHE_CONTROL_HEADER_VALUE))

\* redirect_resolved as it would be with unwrap_or_default on the row: a
\* lookup that gave no row goes on with an empty link.
redirect_resolved_defaulting(request, result, headers) ==
    LET awaited == [ request EXCEPT !.result = Outcome(result) ]
    IN  IF result.kind # "Ok" THEN Responded(awaited, internal_error(result.err))
        ELSE [ awaited EXCEPT
                 !.pc = "insert_statistic",
                 !.link = Some(IF result.rows = << >> THEN NoLink
                               ELSE result.rows[1]),
                 !.referer_header = header_text(headers.referer),
                 !.user_agent_header = header_text(headers.user_agent) ]

\* Lines 126-160: 500 on a timeout or an error, 404 on no row, else read the
\* headers and send the insert of the click.
redirect_resolved(request, result, headers) ==
    LET awaited == [ request EXCEPT !.result = Outcome(result) ]
    IN  IF result.kind # "Ok" THEN Responded(awaited, internal_error(result.err))
        ELSE IF result.rows = << >>
        THEN Responded(awaited, TextResponse(404, "Not Found"))
        ELSE [ awaited EXCEPT !.pc = "insert_statistic",
                              !.link = Some(result.rows[1]),
                              !.referer_header = header_text(headers.referer),
                              !.user_agent_header = header_text(headers.user_agent) ]

\* redirect_finish as it would be with the insert's errors sent through
\* internal_error like the lookup's.
redirect_finish_propagating(request, saved_statistic) ==
    Responded([ request EXCEPT !.saved_statistic = Outcome(saved_statistic) ],
              IF saved_statistic.kind = "Ok"
              THEN EmptyResponse(307, request.link[1].target_url,
                                 DEFAULT_CACHE_CONTROL_HEADER_VALUE)
              ELSE internal_error(saved_statistic.err))

\* redirect_finish as it would be with an insert that timed out or failed
\* sent again.
redirect_finish_retrying(request, saved_statistic) ==
    IF saved_statistic.kind = "Ok"
    THEN Responded([ request EXCEPT !.saved_statistic = Outcome(saved_statistic) ],
                   EmptyResponse(307, request.link[1].target_url,
                                 DEFAULT_CACHE_CONTROL_HEADER_VALUE))
    ELSE request

\* Lines 162-183: the insert's outcome is logged, and the 307 is built from
\* the link that was read.
redirect_finish(request, saved_statistic) ==
    Responded([ request EXCEPT !.saved_statistic = Outcome(saved_statistic) ],
              EmptyResponse(307, request.link[1].target_url,
                            DEFAULT_CACHE_CONTROL_HEADER_VALUE))

(***************************************************************************)
(* update_link                                                             *)
(***************************************************************************)
\* update_link_start as it would be without the parse: the text is sent as
\* it came.
update_link_start_unparsed(link_id, target_url) ==
    [ Accepted("update_link", "update_links")
        EXCEPT !.link_id = link_id, !.target_url = target_url,
               !.url = Join(target_url) ]

\* Lines 195-216: parse, 409 on a malformed URL, else send the update.
update_link_start(link_id, target_url) ==
    LET parsed == Parsed[target_url]
        request == [ Accepted("update_link", "update_links")
                       EXCEPT !.link_id = link_id, !.target_url = target_url ]
    IN  IF ~parsed.ok
        THEN Responded(request, TextResponse(409, "url malformed"))
        ELSE [ request EXCEPT !.url = parsed.url ]

\* Lines 218-224.
update_link_finish(request, result) ==
    Responded([ request EXCEPT !.result = Outcome(result) ],
              IF result.kind = "Ok" THEN JsonLink(result.rows[1])
              ELSE internal_error(result.err))

(***************************************************************************)
(* get_link_statistics                                                     *)
(***************************************************************************)
\* Lines 45-57: send the aggregation.
get_link_statistics_start(link_id) ==
    [ Accepted("get_link_statistics", "select_statistics")
        EXCEPT !.link_id = link_id ]

\* get_link_statistics_finish as it would be with unwrap_or_default on the
\* awaited result.
get_link_statistics_finish_defaulting(request, result) ==
    Responded([ request EXCEPT !.result = Outcome(result) ],
              IF result.kind = "Ok" THEN JsonStatistics(result.rows)
              ELSE JsonStatistics(<< >>))

\* get_link_statistics_finish as it would be with the query awaited without
\* tokio::time::timeout: no deadline ends the wait.
get_link_statistics_finish_waiting(request, result) ==
    IF result.kind = "Elapsed" THEN request
    ELSE Responded([ request EXCEPT !.result = Outcome(result) ],
                   IF result.kind = "Ok" THEN JsonStatistics(result.rows)
                   ELSE internal_error(result.err))

\* Lines 58-64.
get_link_statistics_finish(request, result) ==
    Responded([ request EXCEPT !.result = Outcome(result) ],
              IF result.kind = "Ok" THEN JsonStatistics(result.rows)
              ELSE internal_error(result.err))

(***************************************************************************)
(* The steps.                                                              *)
(***************************************************************************)
\* The tables live in the datastore and outlast the process: the service
\* starts on an empty datastore, or on one that an earlier run left with both
\* links created and the second one followed once.
Fresh == [ links |-> {}, link_statistics |-> << >> ]

Used ==
    LET first  == generate_id(U32(0, 0))
        second == generate_id(U32(42949, 67294))
        seen   == CHOOSE h \in HeaderMaps : h.referer = None
    IN  [ links |-> { Link(first, Url_parse(Chars_http_upper).url),
                      Link(second, Url_parse(Chars_https_path).url) },
          link_statistics |->
              << ClickEvent(second, header_text(seen.referer),
                            header_text(seen.user_agent)) >> ]

Init ==
    /\ \E datastore \in { Fresh, Used } :
          /\ links = datastore.links
          /\ link_statistics = datastore.link_statistics
    /\ written = [ id \in PathIds |->
                      IF links_pkey(links, id) THEN Write("earlier", << >>, 0)
                      ELSE Write("none", << >>, 0) ]
    /\ abandoned = EmptyBag
    /\ requests = EmptyBag
    /\ accepted = 0
    /\ metrics = << >>

\* A handler returns its response in the step that builds it: a request is
\* shown with its response for one state, and its task ends before any other
\* step is taken.
Quiet == \A q \in BagToSet(requests) : q.pc # "responded"

InFlight == BagToSet(requests)

\* A request is accepted while a task is free.
Accept(request) ==
    /\ Quiet
    /\ accepted < MaxAccepted
    /\ BagCardinality(requests) < MaxRequests
    /\ accepted' = accepted + 1
    /\ requests' = requests (+) SetToBag({ request })

\* The request r goes on as `request`.
Becomes(r, request) ==
    requests' = (requests (-) SetToBag({ r })) (+) SetToBag({ request })

\* A write whose caller gave up, as the datastore holds it.
Statement(request) ==
    [ statement |-> request.pc, link_id |-> request.link_id, url |-> request.url,
      referer |-> request.referer_header,
      user_agent |-> request.user_agent_header ]

\* GiveUp as it would be if dropping the call took the statement back from
\* the datastore.
GiveUp_cancelling(request) ==
    abandoned' = abandoned

\* The deadline fired on a write: the datastore has the statement still and
\* may run it, or the statement is lost with the dropped call.
GiveUp(request) ==
    \/ abandoned' = abandoned (+) SetToBag({ Statement(request) })
    \/ abandoned' = abandoned

\* POST /create
CreateLink(target_url) ==
    /\ \E random_number \in random_numbers :
          Accept(create_link_start(target_url, random_number))
    /\ UNCHANGED << links, link_statistics, abandoned, written, metrics >>

InsertLinkReturns(r) ==
    /\ Quiet
    /\ r.pc = "insert_link"
    /\ LET ran == insert_link(links, r.link_id, r.url)
       IN  /\ links' = ran.table
           /\ Becomes(r, create_link_finish(r, fetch_one(ran.result)))
           /\ metrics' = map_err(metrics, fetch_one(ran.result))
           /\ IF ran.table # links
              THEN Record(r.link_id, Write("create", r.target_url, 1))
              ELSE UNCHANGED written
    /\ UNCHANGED << link_statistics, abandoned, accepted >>

InsertLinkFails(r) ==
    /\ Quiet
    /\ r.pc = "insert_link"
    /\ Becomes(r, create_link_finish(r, Err("Io")))
    /\ UNCHANGED << links, link_statistics, abandoned, accepted, written >>
    /\ metrics' = map_err(metrics, Err("Io"))

InsertLinkTimesOut(r) ==
    /\ Quiet
    /\ r.pc = "insert_link"
    /\ Becomes(r, create_link_finish(r, Elapsed))
    /\ GiveUp(r)
    /\ UNCHANGED << links, link_statistics, accepted, written >>
    /\ metrics' = map_err(metrics, Elapsed)

\* GET /:id
Redirect(requested_link) ==
    /\ Accept(redirect_start(requested_link))
    /\ UNCHANGED << links, link_statistics, abandoned, written, metrics >>

SelectLinkReturns(r, headers) ==
    /\ Quiet
    /\ r.pc = "select_link"
    /\ Becomes(r, redirect_resolved(r,
                                    select_link(links, r.link_id).result,
                                    headers))
    /\ UNCHANGED << links, link_statistics, abandoned, accepted, written >>
    /\ metrics' = map_err(metrics, select_link(links, r.link_id).result)

SelectLinkFails(r, headers) ==
    /\ Quiet
    /\ r.pc = "select_link"
    /\ Becomes(r, redirect_resolved(r, Err("Io"), headers))
    /\ UNCHANGED << links, link_statistics, abandoned, accepted, written >>
    /\ metrics' = map_err(metrics, Err("Io"))

SelectLinkTimesOut(r, headers) ==
    /\ Quiet
    /\ r.pc = "select_link"
    /\ Becomes(r, redirect_resolved(r, Elapsed, headers))
    /\ UNCHANGED << links, link_statistics, abandoned, accepted, written >>
    /\ metrics' = map_err(metrics, Elapsed)

InsertStatisticReturns(r) ==
    /\ Quiet
    /\ r.pc = "insert_statistic"
    /\ LET ran == insert_statistic(link_statistics, r.link_id,
                                   r.referer_header,
                                   r.user_agent_header)
       IN  /\ link_statistics' = ran.table
           /\ Becomes(r, redirect_finish(r, ran.result))
    /\ UNCHANGED << links, abandoned, accepted, written, metrics >>

InsertStatisticFails(r) ==
    /\ Quiet
    /\ r.pc = "insert_statistic"
    /\ Becomes(r, redirect_finish(r, Err("Io")))
    /\ UNCHANGED << links, link_statistics, abandoned, accepted, written, metrics >>

InsertStatisticTimesOut(r) ==
    /\ Quiet
    /\ r.pc = "insert_statistic"
    /\ Becomes(r, redirect_finish(r, Elapsed))
    /\ GiveUp(r)
    /\ UNCHANGED << links, link_statistics, accepted, written, metrics >>

\* PATCH /:id
UpdateLink(link_id, target_url) ==
    /\ Accept(update_link_start(link_id, target_url))
    /\ UNCHANGED << links, link_statistics, abandoned, written, metrics >>

UpdateLinksReturns(r) ==
    /\ Quiet
    /\ r.pc = "update_links"
    /\ LET ran == update_links(links, r.url, r.link_id)
       IN  /\ links' = ran.table
           /\ Becomes(r, update_link_finish(r, fetch_one(ran.result)))
           /\ metrics' = map_err(metrics, fetch_one(ran.result))
           /\ IF ran.result.rows # << >>
              THEN Record(r.link_id,
                          Write("update", r.target_url,
                                IF written[r.link_id] =
                                      Write("update", r.target_url,
                                            written[r.link_id].times)
                                THEN written[r.link_id].times + 1 ELSE 1))
              ELSE UNCHANGED written
    /\ UNCHANGED << link_statistics, abandoned, accepted >>

UpdateLinksFails(r) ==
    /\ Quiet
    /\ r.pc = "update_links"
    /\ Becomes(r, update_link_finish(r, Err("Io")))
    /\ UNCHANGED << links, link_statistics, abandoned, accepted, written >>
    /\ metrics' = map_err(metrics, Err("Io"))

UpdateLinksTimesOut(r) ==
    /\ Quiet
    /\ r.pc = "update_links"
    /\ Becomes(r, update_link_finish(r, Elapsed))
    /\ GiveUp(r)
    /\ UNCHANGED << links, link_statistics, accepted, written >>
    /\ metrics' = map_err(metrics, Elapsed)

\* GET /:id/statistics
GetLinkStatistics(link_id) ==
    /\ Accept(get_link_statistics_start(link_id))
    /\ UNCHANGED << links, link_statistics, abandoned, written, metrics >>

SelectStatisticsReturns(r) ==
    /\ Quiet
    /\ r.pc = "select_statistics"
    /\ Becomes(r, get_link_statistics_finish(
                      r,
                      select_statistics(link_statistics, r.link_id).result))
    /\ UNCHANGED << links, link_statistics, abandoned, accepted, written >>
    /\ metrics' = map_err(metrics, select_statistics(link_statistics, r.link_id).result)

SelectStatisticsFails(r) ==
    /\ Quiet
    /\ r.pc = "select_statistics"
    /\ Becomes(r, get_link_statistics_finish(r, Err("Io")))
    /\ UNCHANGED << links, link_statistics, abandoned, accepted, written >>
    /\ metrics' = map_err(metrics, Err("Io"))

SelectStatisticsTimesOut(r) ==
    /\ Quiet
    /\ r.pc = "select_statistics"
    /\ Becomes(r, get_link_statistics_finish(r, Elapsed))
    /\ UNCHANGED << links, link_statistics, abandoned, accepted, written >>
    /\ metrics' = map_err(metrics, Elapsed)

\* The datastore runs a write whose caller gave up; nobody reads its result.
RunAbandoned(s) ==
    /\ Quiet
    /\ BagIn(s, abandoned)
    /\ abandoned' = abandoned (-) SetToBag({ s })
    /\ CASE s.statement = "insert_link" ->
              /\ links' = insert_link(links, s.link_id, s.url).table
              /\ IF links' # links
                 THEN Record(s.link_id, Write("abandoned", << >>, 0))
                 ELSE UNCHANGED written
              /\ UNCHANGED link_statistics
         [] s.statement = "update_links" ->
              /\ links' = update_links(links, s.url, s.link_id).table
              /\ IF links_pkey(links, s.link_id)
                 THEN Record(s.link_id, Write("abandoned", << >>, 0))
                 ELSE UNCHANGED written
              /\ UNCHANGED link_statistics
         [] OTHER ->
              /\ link_statistics' =
                    insert_statistic(link_statistics, s.link_id,
                                     s.referer, s.user_agent).table
              /\ UNCHANGED << links, written >>
    /\ UNCHANGED << requests, accepted, metrics >>

\* The response is sent and the task ends.
Complete(r) ==
    /\ r.pc = "responded"
    /\ requests' = requests (-) SetToBag({ r })
    /\ UNCHANGED << links, link_statistics, abandoned, accepted, written,
                    metrics >>

Next ==
    \/ \E target_url \in TargetUrls : CreateLink(target_url)
    \/ \E r \in InFlight : InsertLinkReturns(r)
    \/ \E r \in InFlight : InsertLinkFails(r)
    \/ \E r \in InFlight : InsertLinkTimesOut(r)
    \/ \E id \in PathIds : Redirect(id)
    \/ \E r \in InFlight, headers \in HeaderMaps : SelectLinkReturns(r, headers)
    \/ \E r \in InFlight, headers \in HeaderMaps : SelectLinkFails(r, headers)
    \/ \E r \in InFlight, headers \in HeaderMaps : SelectLinkTimesOut(r, headers)
    \/ \E r \in InFlight : InsertStatisticReturns(r)
    \/ \E r \in InFlight : InsertStatisticFails(r)
    \/ \E r \in InFlight : InsertStatisticTimesOut(r)
    \/ \E id \in PathIds, target_url \in TargetUrls : UpdateLink(id, target_url)
    \/ \E r \in InFlight : UpdateLinksReturns(r)
    \/ \E r \in InFlight : UpdateLinksFails(r)
    \/ \E r \in InFlight : UpdateLinksTimesOut(r)
    \/ \E id \in PathIds : GetLinkStatistics(id)
    \/ \E r \in InFlight : SelectStatisticsReturns(r)
    \/ \E r \in InFlight : SelectStatisticsFails(r)
    \/ \E r \in InFlight : SelectStatisticsTimesOut(r)
    \/ \E s \in BagToSet(abandoned) : RunAbandoned(s)
    \/ \E r \in InFlight : Complete(r)

Spec == Init /\ [][Next]_vars
\* create_link alone, on an empty datastore, with the id drawn among all the
\* numbers the model knows.
GeneratedIds == { generate_id(n) : n \in gen_range(U32(0, 0), U32_MAX) }

InitId ==
    /\ links = Fresh.links
    /\ link_statistics = Fresh.link_statistics
    /\ written = [ id \in GeneratedIds |-> Write("none", << >>, 0) ]
    /\ abandoned = EmptyBag
    /\ requests = EmptyBag
    /\ accepted = 0
    /\ metrics = << >>

GenerateId(target_url) ==
    /\ \E random_number \in gen_range(U32(0, 0), U32_MAX) :
          Accept(create_link_start(target_url, random_number))
    /\ UNCHANGED << links, link_statistics, abandoned, written, metrics >>

NextId ==
    \/ \E target_url \in { Chars_http_upper, Chars_not_a_url } :
          GenerateId(target_url)
    \/ \E r \in InFlight : InsertLinkReturns(r)
    \/ \E r \in InFlight : InsertLinkFails(r)
    \/ \E r \in InFlight : InsertLinkTimesOut(r)
    \/ \E s \in BagToSet(abandoned) : RunAbandoned(s)
    \/ \E r \in InFlight : Complete(r)

IdSpec == InitId /\ [][NextId]_vars

\* The deadline of some awaited call fires.
Deadline ==
    \E r \in InFlight :
       \/ InsertLinkTimesOut(r)
       \/ \E headers \in HeaderMaps : SelectLinkTimesOut(r, headers)
       \/ InsertStatisticTimesOut(r)
       \/ UpdateLinksTimesOut(r)
       \/ SelectStatisticsTimesOut(r)

\* The inputs of the specification with fairness: a targetUrl that parses
\* and one that does not, and one set of headers.
LiveTargetUrls == { Chars_https_path, Chars_not_a_url }

LiveHeaderMaps == { h \in HeaderMaps : h.referer = None }

NextLive ==
    \/ \E target_url \in LiveTargetUrls : CreateLink(target_url)
    \/ \E r \in InFlight : InsertLinkReturns(r)
    \/ \E r \in InFlight : InsertLinkFails(r)
    \/ \E r \in InFlight : InsertLinkTimesOut(r)
    \/ \E id \in PathIds : Redirect(id)
    \/ \E r \in InFlight, headers \in LiveHeaderMaps :
          SelectLinkReturns(r, headers)
    \/ \E r \in InFlight, headers \in LiveHeaderMaps :
          SelectLinkFails(r, headers)
    \/ \E r \in InFlight, headers \in LiveHeaderMaps :
          SelectLinkTimesOut(r, headers)
    \/ \E r \in InFlight : InsertStatisticReturns(r)
    \/ \E r \in InFlight : InsertStatisticFails(r)
    \/ \E r \in InFlight : InsertStatisticTimesOut(r)
    \/ \E id \in PathIds, target_url \in LiveTargetUrls :
          UpdateLink(id, target_url)
    \/ \E r \in InFlight : UpdateLinksReturns(r)
    \/ \E r \in InFlight : UpdateLinksFails(r)
    \/ \E r \in InFlight : UpdateLinksTimesOut(r)
    \/ \E id \in PathIds : GetLinkStatistics(id)
    \/ \E r \in InFlight : SelectStatisticsReturns(r)
    \/ \E r \in InFlight : SelectStatisticsFails(r)
    \/ \E r \in InFlight : SelectStatisticsTimesOut(r)
    \/ \E s \in BagToSet(abandoned) : RunAbandoned(s)
    \/ \E r \in InFlight : Complete(r)

\* The runtime's timer fires the deadline of a call that stays unanswered,
\* and a handler that has built its response returns it.  The datastore is
\* promised nothing: it may leave every statement unanswered.
LiveSpec ==
    /\ Init /\ [][NextLive]_vars
    /\ WF_vars(Deadline)
    /\ WF_vars(\E r \in InFlight : Complete(r))

(***************************************************************************)
(* The claims.                                                             *)
(***************************************************************************)
\* The requests that have their response.
Answered(handler) ==
    { r \in InFlight : r.handler = handler /\ r.pc = "responded" }

\* The request came to where it is in this step.
Arrives(r) == CopiesIn(r, requests') > CopiesIn(r, requests)

\* The redirects whose lookup found a link.
Resolved == { r \in InFlight : r.handler = "redirect" /\ r.link # None }

\* C1: a redirect whose lookup found a link answers 307 with the Location
\* the lookup read for the requested id, and nothing else, whether the insert
\* of the click succeeded, timed out or failed; and what the lookup reads is
\* the row the table holds for that id.
C1_RedirectAnswersWhatItRead ==
    /\ [](\A r \in Resolved :
            /\ r.link[1].id = r.link_id
            /\ r.pc = "responded" =>
                 /\ r.saved_statistic.kind \in { "Ok", "Elapsed", "Err" }
                 /\ r.response.status = 307
                 /\ r.response.location = r.link[1].target_url
                 /\ r.response.kind = "empty")
    /\ [][\A r \in Resolved' :
            r.pc = "insert_statistic" /\ Arrives(r) => r.link[1] \in links]_vars

\* A redirect answered 307 although the insert of its click timed out.
C1_Witness ==
    \E r \in Answered("redirect") :
        /\ r.saved_statistic.kind = "Elapsed"
        /\ r.response.status = 307
        /\ Link(r.link_id, r.response.location) \in links

\* C2: a redirect whose lookup gave no link ends there: 404 when the lookup
\* ran and no link has the id, 500 when it timed out or failed, never 307, and
\* no insert of a click is sent, so the click log is as it was.
C2_UnresolvedRedirectStops ==
    [][\A r \in Answered("redirect")' :
          r.link = None =>
            /\ r.response.status \in { 404, 500 }
            /\ r.result.kind \in { "Ok", "Elapsed", "Err" }
            /\ r.result.kind = "Ok" =>
                 /\ r.response = TextResponse(404, "Not Found")
                 /\ ~links_pkey(links, r.link_id)
            /\ r.result.kind \in { "Elapsed", "Err" } =>
                 r.response = TextResponse(500, Display(r.result.err))
            /\ r.saved_statistic.kind = "Pending"
            /\ link_statistics' = link_statistics
            /\ abandoned' = abandoned]_vars

\* A redirect of an id without a link answered 404 while another link exists.
C2_Witness ==
    \E r \in Answered("redirect") :
        /\ r.link = None
        /\ r.response.status = 404
        /\ links # {}

\* C3: a create or an update whose targetUrl does not parse answers 409 and
\* sends no statement: the tables and the abandoned writes are as they were.
C3_MalformedUrlWritesNothing ==
    [][\A r \in InFlight' :
          (r.handler \in { "create_link", "update_link" }
              /\ ~Parsed[r.target_url].ok) =>
            /\ r.pc = "responded"
            /\ r.response = TextResponse(409, "url malformed")
            /\ r.result.kind = "Pending"
            /\ links' = links
            /\ link_statistics' = link_statistics
            /\ abandoned' = abandoned]_vars

\* An update of an existing link with a malformed targetUrl answered 409.
C3_Witness ==
    \E r \in Answered("update_link") :
        /\ ~Parsed[r.target_url].ok
        /\ r.response.status = 409
        /\ links_pkey(links, r.link_id)

\* C4: a create that answers 200 answers the row (id, normalized URL) that
\* its own insert added to links, and a lookup of an id whose last write is
\* that create resolves to that row.
C4_CreateThenFetch ==
    [][\A r \in InFlight' :
          /\ (r.handler = "create_link" /\ r.pc = "responded"
                 /\ r.response.status = 200) =>
                /\ Parsed[r.target_url].ok
                /\ r.response.link =
                      Link(r.link_id, Parsed[r.target_url].url)
                /\ r.response.link \in links'
                /\ ~links_pkey(links, r.link_id)
                /\ written'[r.link_id] = Write("create", r.target_url, 1)
          /\ (r.handler = "redirect" /\ Arrives(r) /\ r.result.kind = "Ok"
                 /\ r.saved_statistic.kind = "Pending"
                 /\ written[r.link_id].by = "create") =>
                /\ r.pc = "insert_statistic"
                /\ r.link = Some(Link(r.link_id,
                                      Parsed[written[r.link_id].target_url].url))
      ]_vars

\* A lookup resolved a link as its create left it, with a URL that is not
\* the text the create was given.
C4_Witness ==
    \E r \in Resolved :
        /\ written[r.link_id].by = "create"
        /\ r.link[1].target_url = Parsed[written[r.link_id].target_url].url
        /\ r.link[1].target_url # Join(written[r.link_id].target_url)
        /\ r.link[1] \in links

\* The amount select_statistics gives for a (referer, user_agent) pair of a
\* link, 0 when it gives no such group.
AmountOf(table, link_id, referer, user_agent) ==
    LET rows == select_statistics(table, link_id).result.rows
        same == { i \in DOMAIN rows : /\ rows[i].referer = referer
                                      /\ rows[i].user_agent = user_agent }
    IN  IF same = {} THEN 0 ELSE rows[CHOOSE i \in same : TRUE].amount

\* C5: when the insert of a redirect's click has succeeded, the aggregation
\* for the link has the group of the click's referer and user agent, absent
\* or not, with an amount one above what it was.
C5_RecordedClickCountsOnce ==
    [][\A r \in Answered("redirect")' :
          r.saved_statistic.kind = "Ok" =>
             AmountOf(link_statistics', r.link_id,
                      r.referer_header, r.user_agent_header)
               = AmountOf(link_statistics, r.link_id,
                          r.referer_header, r.user_agent_header) + 1]_vars

\* A click without referer was recorded for a pair that had been counted
\* before.
C5_Witness ==
    \E r \in Answered("redirect") :
        /\ r.saved_statistic.kind = "Ok"
        /\ r.referer_header = None
        /\ AmountOf(link_statistics, r.link_id,
                    r.referer_header, r.user_agent_header) = 2

\* C6: an update that answers 200 answers the row (id, normalized URL), which
\* is then the one row of that id; and when the write before it on that id was
\* the same update, it answers what that one answered and leaves links as it
\* was.
C6_UpdateTwice ==
    [][\A r \in Answered("update_link")' :
          r.response.status = 200 =>
            /\ r.response.link = Link(r.link_id, Parsed[r.target_url].url)
            /\ \A l \in links' : l.id = r.link_id => l = r.response.link
            /\ r.response.link \in links'
            /\ (written[r.link_id].by = "update"
                   /\ written[r.link_id].target_url = r.target_url) =>
                 /\ r.response.link \in links
                 /\ links' = links
                 /\ written'[r.link_id].times = written[r.link_id].times + 1
      ]_vars

\* The same update has been answered 200 twice in a row.
C6_Witness ==
    \E r \in Answered("update_link") :
        /\ r.response.status = 200
        /\ written[r.link_id] = Write("update", r.target_url, 2)
        /\ r.response.link \in links

\* The rows of link_statistics that belong to a link.
EventsOf(link_id) ==
    { k \in DOMAIN link_statistics : link_statistics[k].link_id = link_id }

SamePair(a, b) == a.referer = b.referer /\ a.user_agent = b.user_agent

RECURSIVE SumOfAmounts(_)
SumOfAmounts(statistics) ==
    IF statistics = << >> THEN 0
    ELSE Head(statistics).amount + SumOfAmounts(Tail(statistics))

\* `statistics` is the aggregation of the link's rows as the table holds them.
AggregatesEventsOf(statistics, link_id) ==
    /\ \A i, j \in DOMAIN statistics :
          SamePair(statistics[i], statistics[j]) => i = j
    /\ \A i \in DOMAIN statistics :
          statistics[i].amount =
             Cardinality({ k \in EventsOf(link_id) :
                              SamePair(link_statistics[k], statistics[i]) })
    /\ \A k \in EventsOf(link_id) :
          \E i \in DOMAIN statistics : SamePair(link_statistics[k], statistics[i])
    /\ \A i \in DOMAIN statistics : statistics[i].amount >= 1
    /\ SumOfAmounts(statistics) = Cardinality(EventsOf(link_id))

\* C7: in every state the aggregation of any id, with a link or without, and
\* the body of every statistics request answered 200, holds one entry for
\* each (referer, user_agent) pair among the rows of that id, with the number
\* of those rows as its amount, and nothing of another link's rows.
C7_StatisticsCountTheLinksClicks ==
    /\ \A id \in PathIds \cup { "unknown" } :
          LET result == select_statistics(link_statistics, id).result
          IN  result.kind = "Ok" /\ AggregatesEventsOf(result.rows, id)
    /\ \A r \in Answered("get_link_statistics") :
          r.response.status = 200 =>
             /\ r.response.kind = "statistics"
             /\ AggregatesEventsOf(r.response.statistics, r.link_id)

\* A statistics request was answered two groups while another link has a
\* click of its own.
C7_Witness ==
    \E r \in Answered("get_link_statistics") :
        /\ r.response.status = 200
        /\ Len(r.response.statistics) = 2
        /\ \E k \in DOMAIN link_statistics :
              link_statistics[k].link_id # r.link_id

\* C8: a statistics request whose query timed out or failed answers 500 with
\* the error's text, not a list.
C8_StatisticsFailureIsAnswered ==
    \A r \in Answered("get_link_statistics") :
        /\ r.result.kind \in { "Ok", "Elapsed", "Err" }
        /\ r.result.kind # "Ok" =>
             /\ r.response = TextResponse(500, Display(r.result.err))
             /\ r.response.statistics = << >>
        /\ r.response.status = 200 => r.result.kind = "Ok"

\* A statistics request for a link that has clicks was answered 500 after a
\* timeout.
C8_Witness ==
    \E r \in Answered("get_link_statistics") :
        /\ r.result.kind = "Elapsed"
        /\ r.response.status = 500
        /\ EventsOf(r.link_id) # {}

\* C9: an update with a well-formed URL for an id no link has answers 500
\* with the error's text (row not found when the statement ran), and links is
\* as it was.
C9_UpdateOfNoLinkFails ==
    [][\A r \in Answered("update_link")' :
          (Parsed[r.target_url].ok /\ ~links_pkey(links, r.link_id)) =>
            /\ r.result.kind \in { "Elapsed", "Err" }
            /\ r.result.err \in { "Elapsed", "Io", "RowNotFound" }
            /\ r.response = TextResponse(500, Display(r.result.err))
            /\ links' = links]_vars

\* An update of an id without a link was answered row not found while
\* another link exists.
C9_Witness ==
    \E r \in Answered("update_link") :
        /\ r.result.err = "RowNotFound"
        /\ r.response.status = 500
        /\ ~links_pkey(links, r.link_id)
        /\ links # {}

\* C10: no two links have the same id; a create that drew the id of an
\* existing link answers 500 and ends, and links is as it was.
C10_IdsAreUnique ==
    /\ [](\A a, b \in links : a.id = b.id => a = b)
    /\ [][\A r \in Answered("create_link")' :
            (Parsed[r.target_url].ok /\ links_pkey(links, r.link_id)) =>
              /\ r.result.kind \in { "Elapsed", "Err" }
              /\ r.result.err \in { "Elapsed", "Io", "UniqueViolation" }
              /\ r.response = TextResponse(500, Display(r.result.err))
              /\ links' = links]_vars

\* A create drew the id of a link with another URL and was answered the
\* unique violation.
C10_Witness ==
    \E r \in Answered("create_link") :
        /\ r.result.err = "UniqueViolation"
        /\ r.response.status = 500
        /\ \E l \in links : l.id = r.link_id /\ l.target_url # r.url

\* The statement that a request waiting on a write has sent, or a write whose
\* caller gave up, is an update of the link of this id to this URL, and it
\* is taken from where it was in this step.
UpdateRuns(id, url) ==
    \/ \E r \in InFlight :
          /\ r.pc = "update_links" /\ r.link_id = id /\ r.url = url
          /\ CopiesIn(r, requests') < CopiesIn(r, requests)
    \/ \E s \in BagToSet(abandoned) :
          /\ s.statement = "update_links" /\ s.link_id = id /\ s.url = url
          /\ CopiesIn(s, abandoned') < CopiesIn(s, abandoned)

\* C11: a link that is in the table is in the table after every step, under
\* its id, and with its target_url unless the step ran an update of that id,
\* which leaves it with the URL of that update.
C11_LinksStay ==
    [][\A l \in links :
          \E k \in links' :
             /\ k.id = l.id
             /\ k.target_url # l.target_url => UpdateRuns(l.id, k.target_url)]_vars

\* A link an earlier run left was updated to another URL and answered, and
\* the other link is in the table as it was.
C11_Witness ==
    \E r \in Answered("update_link") :
        /\ r.response.status = 200
        /\ written[r.link_id].by = "update"
        /\ Link(r.link_id, r.url) \in links
        /\ \E l \in links : l.id # r.link_id /\ written[l.id].by = "earlier"
                             /\ l.target_url # r.url

\* The request leaves where it was in this step.
Leaves(r) == CopiesIn(r, requests') < CopiesIn(r, requests)

\* C12: in a redirect the insert of the click is sent only after the lookup
\* gave a link, the 307 is built only after the lookup gave a link and the
\* awaited insert ended (Ok, error or timeout), and the request that answers
\* 307 is one that was waiting on its insert.
C12_ResolveRecordRespond ==
    /\ [](\A r \in InFlight :
            r.handler = "redirect" =>
              /\ r.pc = "select_link" =>
                   r.result.kind = "Pending" /\ r.saved_statistic.kind = "Pending"
              /\ r.pc = "insert_statistic" =>
                   /\ r.result.kind = "Ok" /\ r.link # None
                   /\ r.saved_statistic.kind = "Pending"
              /\ r.response.status = 307 =>
                   /\ r.result.kind = "Ok" /\ r.link # None
                   /\ r.saved_statistic.kind \in { "Ok", "Elapsed", "Err" })
    /\ [][/\ \A r \in Answered("redirect")' :
               (r.response.status = 307 /\ Arrives(r)) =>
                 \E q \in InFlight :
                    /\ q.pc = "insert_statistic" /\ Leaves(q)
                    /\ q.link_id = r.link_id /\ q.link = r.link
          /\ \A r \in InFlight' :
               (r.pc = "insert_statistic" /\ Arrives(r)) =>
                 \E q \in InFlight :
                    /\ q.pc = "select_link" /\ Leaves(q)
                    /\ q.link_id = r.link_id
                    /\ link_statistics' = link_statistics
                    /\ abandoned' = abandoned]_vars

\* A redirect answered 307 after the insert of its click failed.
C12_Witness ==
    \E r \in Answered("redirect") :
        /\ r.result.kind = "Ok"
        /\ r.saved_statistic.kind = "Err"
        /\ r.response.status = 307

\* The requests that wait on a write.
Writing ==
    { r \in InFlight : r.pc \in { "insert_link", "update_links", "insert_statistic" } }

\* The deadline of the write r waits on fires.
WriteTimesOut(r) ==
    \/ InsertLinkTimesOut(r)
    \/ UpdateLinksTimesOut(r)
    \/ InsertStatisticTimesOut(r)

\* C13: the deadline firing on a create, an update or an insert of a click
\* writes nothing itself and can leave the statement with the datastore, and
\* a statement left so can still run: that the caller was told of a timeout
\* does not mean that nothing was written.
C13_TimeoutOnlyEndsTheWait ==
    /\ [](Quiet =>
            /\ \A r \in Writing :
                  ENABLED (/\ WriteTimesOut(r)
                           /\ BagIn(Statement(r), abandoned')
                           /\ links' = links
                           /\ link_statistics' = link_statistics)
            /\ \A s \in BagToSet(abandoned) : ENABLED RunAbandoned(s))
    /\ [][\A s \in BagToSet(abandoned') :
            CopiesIn(s, abandoned') > CopiesIn(s, abandoned) =>
              \E r \in Writing :
                 /\ Leaves(r) /\ s = Statement(r)
                 /\ \E q \in InFlight' :
                       /\ Arrives(q) /\ q.pc = "responded"
                       /\ "Elapsed" \in { q.result.kind, q.saved_statistic.kind }]_vars

\* A link is in the table by a write whose caller had been answered 500 for
\* the timeout before the write ran, and no request is in flight.
C13_Witness ==
    /\ requests = EmptyBag
    /\ \E l \in links : written[l.id].by = "abandoned"

\* C14: every request in flight comes to its end, whatever the datastore
\* does; a request ends only with a response; and a step, a fired deadline
\* among them, moves one request and leaves the others where they wait.
C14_EveryRequestIsAnswered ==
    /\ (requests # EmptyBag) ~> (requests = EmptyBag)
    /\ [][/\ BagCardinality(requests') < BagCardinality(requests) =>
               \E r \in InFlight :
                  /\ r.pc = "responded"
                  /\ r.response.status \in { 200, 307, 404, 409, 500 }
                  /\ requests' = requests (-) SetToBag({ r })
          /\ BagCardinality(requests (-) requests') <= 1
          /\ BagCardinality(requests' (-) requests) <= 1]_vars

\* The lookup of a redirect timed out and was answered 500 while another
\* request still waits on its call.
C14_Witness ==
    \E r \in Answered("redirect") :
        /\ r.result.kind = "Elapsed"
        /\ r.response.status = 500
        /\ \E q \in InFlight : q.pc # "responded"

\* What the recorder shows for a counter: its value, zero when it was never
\* registered.
CounterValue(registry, key) ==
    IF key \in DOMAIN registry THEN registry[key] ELSE 0

\* C15: the step in which a request is answered after its create, update,
\* statistics query or lookup timed out or failed answers 500 with the
\* error's text and adds one to the "internal_error" counter labelled with
\* that text, and to no other; every other answer, that of a redirect whose
\* insert of the click timed out or failed among them, leaves every counter
\* as it was.
C15_ErrorsAreCounted ==
    [][\A r \in InFlight' :
          (Arrives(r) /\ r.pc = "responded") =>
            LET reported == << "internal_error",
                               << << "error", Display(r.result.err) >> >> >>
                keys == DOMAIN metrics \cup DOMAIN metrics' \cup { reported }
            IN  IF r.result.kind \in { "Elapsed", "Err" }
                THEN /\ r.response = TextResponse(500, Display(r.result.err))
                     /\ \A key \in keys :
                           CounterValue(metrics', key) =
                              CounterValue(metrics, key)
                                 + (IF key = reported THEN 1 ELSE 0)
                ELSE \A key \in keys :
                        CounterValue(metrics', key) = CounterValue(metrics, key)]_vars

\* C16: the numbers generate_id can draw are all the unsigned 32-bit
\* numbers, the greatest, 2^32 - 1, among them, and the id of every create is
\* the URL-safe unpadded base64 text of the decimal text of such a number.
C16_DrawsFromAllOfU32 ==
    /\ \A n \in U32Samples : n \in gen_range(U32(0, 0), U32_MAX)
    /\ \A r \in InFlight :
          r.pc = "insert_link" =>
            \E n \in U32Samples : r.link_id = encode(to_string(n))

\* The number of characters of the unpadded base64 text of a text of this
\* many bytes.
EncodedLen(bytes) == (4 * bytes + 2) \div 3

\* C17 as it was stated: the id a successful create returns has 8 to 12
\* characters.
C17_IdOf8To12Characters ==
    \A r \in Answered("create_link") :
        r.response.status = 200 => Len(r.response.link.id) \in 8..12

\* C17: the id a successful create returns is the id it drew, the unpadded
\* base64 text of the 1 to 10 digits of a number the generator can give,
\* and so has 2 to 14 characters.
C17_IdOf2To14Characters ==
    \A r \in Answered("create_link") :
        r.response.status = 200 =>
          /\ r.response.link.id = r.link_id
          /\ Len(r.response.link.id) \in 2..14
          /\ \E n \in gen_range(U32(0, 0), U32_MAX) :
                /\ r.response.link.id = generate_id(n)
                /\ Len(to_string(n)) \in 1..10
                /\ Len(r.response.link.id) = EncodedLen(Len(to_string(n)))

\* A create was answered an id of 14 characters while a link with an id of
\* 2 characters and one with an id of 10 are in the table.
C17_Witness ==
    \E r \in Answered("create_link") :
        /\ r.response.status = 200
        /\ Len(r.response.link.id) = 14
        /\ \E k, l \in links : Len(k.id) = 2 /\ Len(l.id) = 10

\* The inserts of a click that callers gave up and the datastore may still
\* run.
AbandonedClicks ==
    LET S == { s \in BagToSet(abandoned) : s.statement = "insert_statistic" }
    IN  BagCardinality([ s \in S |-> abandoned[s] ])

\* The redirects that have not ended their insert of a click.
OpenRedirects ==
    LET S == { r \in InFlight : r.pc \in { "select_link", "insert_statistic" } }
    IN  BagCardinality([ r \in S |-> requests[r] ])

\* The clicks stored and the clicks that may yet come of the redirects
\* accepted so far.
ClicksOwed == Len(link_statistics) + AbandonedClicks + OpenRedirects

\* C18: a step leaves the click log as it was or appends one click to it;
\* the click appended is that of a redirect whose lookup gave a link, put
\* there by its awaited insert or by its insert run after the caller gave up;
\* a redirect whose insert returned has its click as the last of the log; and
\* the clicks stored and yet to come grow only by one with each redirect
\* accepted, so no redirect stores two and no insert is sent again.
C18_OneClickPerRedirect ==
    [][/\ \/ link_statistics' = link_statistics
          \/ /\ Len(link_statistics') = Len(link_statistics) + 1
             /\ SubSeq(link_statistics', 1, Len(link_statistics)) = link_statistics
             /\ LET click == link_statistics'[Len(link_statistics')]
                IN  \/ \E q \in Resolved :
                         /\ q.pc = "insert_statistic" /\ Leaves(q)
                         /\ click = ClickEvent(q.link_id, q.referer_header,
                                               q.user_agent_header)
                    \/ \E s \in BagToSet(abandoned) :
                         /\ s.statement = "insert_statistic"
                         /\ CopiesIn(s, abandoned') < CopiesIn(s, abandoned)
                         /\ click = ClickEvent(s.link_id, s.referer, s.user_agent)
       /\ \A r \in Answered("redirect")' :
             Arrives(r) =>
               IF r.saved_statistic.kind = "Ok"
               THEN link_statistics' =
                       Append(link_statistics,
                              ClickEvent(r.link_id, r.referer_header,
                                         r.user_agent_header))
               ELSE link_statistics' = link_statistics
       /\ ClicksOwed' <= ClicksOwed
                            + (IF \E r \in InFlight' :
                                    Arrives(r) /\ r.pc = "select_link"
                               THEN 1 ELSE 0)]_vars

\* A redirect whose insert returned is answered with its click as the last
\* of the log, after an older click, while the insert of another redirect,
\* whose caller gave up, is still with the datastore.
C18_Witness ==
    \E r \in Answered("redirect") :
        /\ r.saved_statistic.kind = "Ok"
        /\ Len(link_statistics) >= 2
        /\ link_statistics[Len(link_statistics)] =
              ClickEvent(r.link_id, r.referer_header, r.user_agent_header)
        /\ AbandonedClicks = 1

\* C19: every click stored, and every insert of a click that a redirect
\* waits on or that the datastore may still run, has the id of a link that
\* is in the table.
C19_ClicksAreOfLinks ==
    /\ \A i \in DOMAIN link_statistics :
          links_pkey(links, link_statistics[i].link_id)
    /\ \A r \in InFlight :
          r.pc = "insert_statistic" => links_pkey(links, r.link_id)
    /\ \A s \in BagToSet(abandoned) :
          s.statement = "insert_statistic" => links_pkey(links, s.link_id)

\* A link made by a create of this run has two clicks, and no request is in
\* flight.
C19_Witness ==
    /\ requests = EmptyBag
    /\ \E i, j \in DOMAIN link_statistics :
          /\ i # j
          /\ link_statistics[i].link_id = link_statistics[j].link_id
          /\ written[link_statistics[i].link_id].by = "create"

\* C20: the link a redirect holds from its lookup on is a row the table had
\* for the requested id at the lookup; the 307 carries the target_url of that
\* link; and while the redirect waits on its insert the table comes to hold
\* another target_url for the id only by an update of that id.
C20_LocationIsWhatTheLookupRead ==
    [][\A r \in InFlight' :
          (r.handler = "redirect" /\ Arrives(r)) =>
            /\ r.pc = "insert_statistic" =>
                 Link(r.link_id, r.link[1].target_url) \in links
            /\ (r.pc = "responded" /\ r.response.status = 307) =>
                 \E q \in Resolved :
                    /\ q.pc = "insert_statistic" /\ Leaves(q)
                    /\ q.link_id = r.link_id
                    /\ r.response.location = q.link[1].target_url
                    /\ \/ Link(r.link_id, r.response.location) \in links
                       \/ \E l \in links :
                             /\ l.id = r.link_id
                             /\ written[r.link_id].by \in { "update", "abandoned" }]_vars

\* A redirect answers 307 with the target_url its lookup read while the
\* link of that id has the target_url of an update that ran in between.
C20_Witness ==
    \E r \in Answered("redirect") :
        /\ r.response.status = 307
        /\ written[r.link_id].by = "update"
        /\ \E l \in links :
              /\ l.id = r.link_id
              /\ l.target_url # r.response.location
              /\ l.target_url = Parsed[written[r.link_id].target_url].url

====
